---- MODULE Spec2Model ----
(***************************************************************************)
(* A model of script/build.js: the universe of languages is built once by  *)
(* createTopLanguages(), then generate() runs once per package directory.  *)
(*                                                                         *)
(* JavaScript values are modelled as follows.                              *)
(*   - a property key that is `undefined` is the string "undefined" (the   *)
(*     key JavaScript coerces it to);                                      *)
(*   - a speaker count is <<n>> when it is the number n and <<>> when it   *)
(*     is undefined;                                                       *)
(*   - a text is [id, count] where count[s] is the number of code points   *)
(*     of Unicode script s in it, and a prefix of a text is [id, len];     *)
(*   - a RegExp is [source, flags], its source the sequence of script      *)
(*     character classes it alternates.                                    *)
(***************************************************************************)
EXTENDS Integers, Sequences, FiniteSets, TLC

VARIABLES
  phase,               \* position in the top-level script (lines 37-44)
  speakers,            \* require('speakers') after the composite of lines 33-35
  information,         \* require('udhr').information()
  declarations,        \* require('udhr').json()
  trigrams,            \* require('trigrams').min()
  overrides,           \* require('./udhr-overrides')
  expressions,         \* var expressions (line 37)
  candidates,          \* `top` of createTopLanguages after the loop of lines 369-380
  topLanguages,        \* var topLanguages (line 38)
  constructed,         \* [topLanguages, expressions] as they were right after construction
  pack,                \* the descriptor of the package generate() was last called on
  outcome,             \* how that call ended: "none", "skipped", "TypeError", "emitted"
  filtered,            \* `list` after the threshold filter (lines 66-70)
  list,                \* `list` after the allow-list filter (lines 72-76)
  support,             \* `support` as handed to generateReadme (line 134)
  regularExpressions,  \* the table written to expressions.js (line 132)
  data,                \* the table written to data.json (line 133)
  fixturesWritten,     \* whether that call wrote test/fixtures.json (line 184)
  fixtures             \* the table written to test/fixtures.json

vars == <<phase, speakers, information, declarations, trigrams, overrides,
          expressions, candidates, topLanguages, constructed, pack, outcome,
          filtered, list, support, regularExpressions, data, fixturesWritten,
          fixtures>>

(***************************************************************************)
(* Bounds of the model.                                                    *)
(***************************************************************************)
\* speaker counts range over 0..MaxSpeakers, thresholds over 1..MaxSpeakers + 1
MaxSpeakers == 1

(***************************************************************************)
(* JavaScript values.                                                      *)
(***************************************************************************)
Undefined == "undefined"

NoSpeakers == <<>>

IsNumber(v) == Len(v) = 1

Num(v) == v[1]

Has(object, key) == key \in DOMAIN object

\* object[key] = value
Put(object, key, value) == (key :> value) @@ object

\* array.indexOf(x) > -1
Includes(array, x) == \E i \in DOMAIN array : array[i] = x

Last(array) == array[Len(array)]

Front(array) == SubSeq(array, 1, Len(array) - 1)

RECURSIVE Reverse(_)
Reverse(array) ==
  IF array = <<>> THEN <<>> ELSE <<Last(array)>> \o Reverse(Front(array))

Min(a, b) == IF a < b THEN a ELSE b

EmptyObject == [k \in {} |-> <<>>]

(***************************************************************************)
(* Static data.                                                            *)
(***************************************************************************)
\* the registry, in its own (code) order
iso6393 == <<
  [iso6393 |-> "aaa", name |-> "Zande",    type |-> "living"],
  [iso6393 |-> "bbb", name |-> "Bambara",  type |-> "living"],
  [iso6393 |-> "jpn", name |-> "Japanese", type |-> "living"],
  [iso6393 |-> "prs", name |-> "Dari",     type |-> "living"],
  [iso6393 |-> "yue", name |-> "Yue Chinese", type |-> "living"],
  [iso6393 |-> "zxx", name |-> "No linguistic content", type |-> "special"] >>

\* require('./udhr-exclude')
exclude == <<"prs">>

\* require('unicode-7.0.0').Script, the names createExpressions() walks
scripts == <<"Common", "Cyrillic", "Hiragana", "Inherited", "Katakana", "Latin">>

\* the names of the registry in ascending alphabetical order
NamesAscending == <<"Bambara", "Dari", "Japanese", "No linguistic content",
                    "Yue Chinese", "Zande">>

Rank(name) == CHOOSE i \in DOMAIN NamesAscending : NamesAscending[i] = name

\* alpha.asc(a, b)
asc(a, b) == IF a = b THEN 0 ELSE IF Rank(a) > Rank(b) THEN 1 ELSE -1

\* mono.name: the umbrella package
monoName == "franc"

(***************************************************************************)
(* Texts.                                                                  *)
(***************************************************************************)
Text(id, latin, cyrillic, common) ==
  [id |-> id,
   count |-> [s \in {"Latin", "Cyrillic", "Common"} |->
                IF s = "Latin" THEN latin
                ELSE IF s = "Cyrillic" THEN cyrillic ELSE common]]

\* content.length
Length(text) == text.count["Latin"] + text.count["Cyrillic"] + text.count["Common"]

EmptyString == [id |-> "", len |-> 0]

\* text.slice(0, n): the prefix of the text, at most n long
Slice(text, n) ==
  IF Length(text) = 0 THEN EmptyString
  ELSE [id |-> text.id, len |-> Min(Length(text), n)]

\* [].join(''): the concatenation of texts, as far as script counts go
RECURSIVE Join(_)
Join(texts) ==
  IF texts = <<>> THEN Text("", 0, 0, 0)
  ELSE LET rest == Join(Tail(texts))
       IN [id |-> Head(texts).id,
           count |-> [s \in {"Latin", "Cyrillic", "Common"} |->
                        Head(texts).count[s] + rest.count[s]]]

\* a declaration: preamble is <<para>> or <<>> (no preamble paragraph), note a
\* sequence of paragraphs
LatinDeclaration ==
  [preamble |-> <<Text("latin", 1200, 0, 300)>>, note |-> <<>>]

\* one Cyrillic code point in twenty: 0.05, which is not above the floor
MostlyLatinDeclaration ==
  [preamble |-> <<Text("mostlyLatin", 18, 1, 1)>>, note |-> <<>>]

MixedDeclaration ==
  [preamble |-> <<Text("mixed", 10, 10, 0)>>, note |-> <<>>]

CommonDeclaration ==
  [preamble |-> <<>>, note |-> <<Text("common", 0, 0, 12)>>]

CyrillicDeclaration ==
  [preamble |-> <<>>, note |-> <<Text("cyrillic", 0, 40, 10)>>]

\* require('./custom-fixtures')
customFixtures == "k2" :> Text("custom", 0, 1500, 0)

(***************************************************************************)
(* createExpressions (lines 338-345).                                      *)
(***************************************************************************)
RegExp(source, flags) == [source |-> source, flags |-> flags]

\* what a lookup of a missing property yields where a RegExp is expected
UndefinedRegExp == RegExp(<<>>, Undefined)

createExpressions == [script \in {scripts[i] : i \in DOMAIN scripts} |->
                        RegExp(<<script>>, "g")]

\* expressions[script] in the table e
Lookup(e, script) == IF Has(e, script) THEN e[script] ELSE UndefinedRegExp

(***************************************************************************)
(* sort (lines 324-336) and Array.prototype.sort.                          *)
(***************************************************************************)
sort(a, b) ==
  IF IsNumber(a.speakers) /\ IsNumber(b.speakers)
       /\ Num(b.speakers) # Num(a.speakers)
  THEN Num(b.speakers) - Num(a.speakers)
  ELSE IF b.speakers = a.speakers
       THEN asc(a.name, b.name)
       ELSE IF IsNumber(b.speakers) /\ Num(b.speakers) # 0 THEN 1 ELSE -1

InsertAt(array, p, x) ==
  SubSeq(array, 1, p - 1) \o <<x>> \o SubSeq(array, p, Len(array))

\* the places of a sorted array where x can be put with no neighbour out of
\* order according to the comparator
Places(array, x) ==
  {p \in 1..(Len(array) + 1) :
     /\ (p = 1 \/ sort(array[p - 1], x) <= 0)
     /\ (p > Len(array) \/ sort(x, array[p]) <= 0)}

\* array.sort(sort): every order an insertion of the elements one by one can
\* end in.  Elements the comparator calls equal may come out in either order
\* (the sort need not be stable), and so may elements it orders inconsistently.
RECURSIVE SortOutcomes(_)
SortOutcomes(array) ==
  IF array = <<>> THEN {<<>>}
  ELSE UNION {{InsertAt(r, p, Last(array)) : p \in Places(r, Last(array))} :
                r \in SortOutcomes(Front(array))}

(***************************************************************************)
(* getUDHRKeysfromISO (lines 472-497).                                     *)
(***************************************************************************)
\* Object.keys(information)
informationKeys == <<"aaa", "k1", "k2">>

\* the keys whose entry names the code, in the order of the index (lines 479-485)
Matches(info, iso) ==
  SelectSeq(informationKeys,
            LAMBDA code : info[code].ISO = iso \/ info[code].code = iso)

\* the array the function returns; for an overridden code it is the array
\* of the override table itself (line 476)
getUDHRKeysfromISO(ov, info, iso) ==
  IF Has(ov, iso) THEN ov[iso]
  ELSE LET udhrs == Matches(info, iso)
       IN IF Len(udhrs) = 1 THEN udhrs
          ELSE IF Includes(udhrs, iso) THEN <<iso>>
          ELSE udhrs

(***************************************************************************)
(* scriptInformation (lines 297-321).                                      *)
(***************************************************************************)
\* a script is kept when its rounded share of the content is above 0.05
UsageFloor == 5

\* all(declaration, 'para'): every paragraph of the declaration; none when
\* there is no declaration under the key
all(decls, code) ==
  IF Has(decls, code) THEN decls[code].preamble \o decls[code].note ELSE <<>>

\* the code points of the content the script's expression matches
MatchCount(content, script) ==
  IF Has(content.count, script) THEN content.count[script] ELSE 0

\* Math.round(count / length * 100), in hundredths; 0 / 0 is NaN, which the
\* test of line 315 rejects like 0
RoundedShare(count, length) ==
  IF length = 0 THEN 0 ELSE (200 * count + length) \div (2 * length)

\* Object.keys of the object the function returns
scriptInformation(decls, e, code) ==
  LET content == Join(all(decls, code))
  IN SelectSeq(scripts,
               LAMBDA script :
                 /\ Has(e, script)
                 /\ script # "Common" /\ script # "Inherited"
                 /\ RoundedShare(MatchCount(content, script), Length(content))
                      > UsageFloor)

(***************************************************************************)
(* createTopLanguages (lines 347-453).                                     *)
(***************************************************************************)
JapaneseScript == "Hiragana, Katakana, and Han"

LanguageInfo(info, spk, udhr) ==
  [iso6393 |-> info.iso6393, name |-> info.name, type |-> info.type,
   speakers |-> spk, udhr |-> udhr]

WithUdhr(info, udhr) == LanguageInfo(info, info.speakers, udhr)

WithScript(info, script) ==
  [iso6393 |-> info.iso6393, name |-> info.name, type |-> info.type,
   speakers |-> info.speakers, udhr |-> info.udhr, script |-> script]

\* lines 348-367: attach the speaker count, drop excluded and special codes;
\* no declaration key is attached yet
Registered(spk) ==
  LET mapped == [i \in DOMAIN iso6393 |->
                   LanguageInfo(iso6393[i], spk[iso6393[i].iso6393], Undefined)]
  IN SelectSeq(mapped,
               LAMBDA info : /\ ~Includes(exclude, info.iso6393)
                             /\ info.type # "special")

\* udhrs.pop() of line 373: the value popped
Popped(udhrs) == IF udhrs = <<>> THEN Undefined ELSE Last(udhrs)

\* the array after the pop
AfterPop(udhrs) == IF udhrs = <<>> THEN <<>> ELSE Front(udhrs)

\* lines 369-380 from the i-th record on. forEach visits the records the
\* array held when the loop began (count of them), so the clones pushed at
\* line 377 are not visited; the pop of line 373 acts on the array
\* getUDHRKeysfromISO returned, which for an overridden code is the array of
\* the override table.
RECURSIVE Expand(_, _, _, _, _)
Expand(top, ov, info, i, count) ==
  IF i > count THEN [top |-> top, overrides |-> ov]
  ELSE LET code   == top[i].iso6393
           udhrs  == getUDHRKeysfromISO(ov, info, code)
           rest   == AfterPop(udhrs)
           first  == WithUdhr(top[i], Popped(udhrs))
           clones == [j \in DOMAIN rest |-> WithUdhr(first, rest[j])]
           ov2    == IF Has(ov, code) THEN [ov EXCEPT ![code] = rest] ELSE ov
       IN Expand([top EXCEPT ![i] = first] \o clones, ov2, info, i + 1, count)

\* lines 384-421: the scripts of a candidate, manual overrides applied
Append1(array, x) == IF Includes(array, x) THEN array ELSE Append(array, x)

ScriptsOf(decls, e, info) ==
  LET found == scriptInformation(decls, e, info.udhr)
      code  == info.iso6393
  IN IF code = "tel" THEN Append1(found, "Telugu")
     ELSE IF code = "ori" THEN Append1(found, "Oriya")
     ELSE IF code = "sin" THEN Append1(found, "Sinhala")
     ELSE IF code = "sat" THEN Append1(found, "Ol_Chiki")
     ELSE IF code = "jpn" THEN <<JapaneseScript>>
     ELSE found

\* line 428
Ignore(decls, e, tri, info) ==
  ~Has(tri, info.udhr) /\ Len(ScriptsOf(decls, e, info)) = 0

\* line 430: scripts[0]
FirstScript(found) == IF found = <<>> THEN Undefined ELSE found[1]

\* lines 432-437: the error is thrown at the first candidate with more than
\* one script, whatever came before it
Throws(decls, e, top) ==
  \E i \in DOMAIN top : Len(ScriptsOf(decls, e, top[i])) > 1

\* lines 423-450: the candidates that are kept, each with its single script
Survivors(decls, e, tri, top) ==
  LET kept == SelectSeq(top, LAMBDA info : ~Ignore(decls, e, tri, info))
  IN [i \in DOMAIN kept |->
        WithScript(kept[i], FirstScript(ScriptsOf(decls, e, kept[i])))]

(***************************************************************************)
(* createTopLanguagesByScript (lines 455-469).                             *)
(***************************************************************************)
\* Object.keys(scripts): the scripts in the order they first occur
RECURSIVE ScriptKeys(_)
ScriptKeys(top) ==
  IF top = <<>> THEN <<>>
  ELSE LET before == ScriptKeys(Front(top))
       IN IF Includes(before, Last(top).script) THEN before
          ELSE Append(before, Last(top).script)

createTopLanguagesByScript(top) ==
  [script \in {top[i].script : i \in DOMAIN top} |->
     SelectSeq(top, LAMBDA info : info.script = script)]

(***************************************************************************)
(* generate (lines 46-190).                                                *)
(***************************************************************************)
\* a filter written as !(info.speakers < threshold), which keeps the records
\* with an unknown speaker count
PassesThresholdNotBelow(info, threshold) ==
  ~(IsNumber(info.speakers) /\ Num(info.speakers) < threshold)

\* line 68
PassesThreshold(info, threshold) ==
  IsNumber(info.speakers) /\ Num(info.speakers) >= threshold

\* lines 66-70
ThresholdFilter(top, threshold) ==
  IF threshold # -1
  THEN SelectSeq(top, LAMBDA info : PassesThreshold(info, threshold))
  ELSE top

\* an allow-list applied to the universe instead of the filtered list, which
\* lets it override the threshold
AllowListFilterOfUniverse(languages, includedlanguages) ==
  IF Len(includedlanguages) > 0
  THEN SelectSeq(topLanguages,
                 LAMBDA info : Includes(includedlanguages, info.iso6393))
  ELSE languages

\* lines 72-76
AllowListFilter(languages, includedlanguages) ==
  IF Len(includedlanguages) > 0
  THEN SelectSeq(languages,
                 LAMBDA info : Includes(includedlanguages, info.iso6393))
  ELSE languages

\* lines 81-92
Redundant == <<"npi", "yue">>

WithoutRedundant(languages) ==
  SelectSeq(languages, LAMBDA info : ~Includes(Redundant, info.iso6393))

\* !regularExpressions[script]
Falsy(regs, key) == ~Has(regs, key) \/ regs[key] = UndefinedRegExp

\* lines 80-104 from the i-th script on; acc holds support, regularExpressions
\* and the keys of perScript, and thrown once languages[0] was undefined at
\* line 102
RECURSIVE Groups(_, _, _, _, _)
Groups(e, byScript, keys, i, acc) ==
  IF i > Len(keys) \/ acc.thrown THEN acc
  ELSE LET script    == keys[i]
           languages == WithoutRedundant(byScript[script])
       IN IF Len(languages) > 1
          THEN Groups(e, byScript, keys, i + 1,
                 [acc EXCEPT
                    !.regularExpressions =
                       IF Falsy(@, script) THEN Put(@, script, Lookup(e, script))
                       ELSE @,
                    !.perScript = Append(@, script)])
          ELSE IF Len(languages) = 0
          THEN [acc EXCEPT !.thrown = TRUE]
          ELSE Groups(e, byScript, keys, i + 1,
                 [acc EXCEPT
                    !.support = Append(@, languages[1]),
                    !.regularExpressions =
                       Put(@, languages[1].iso6393, Lookup(e, script))])

\* lines 113-120: the members of a group that have trigrams
WithTrigrams(tri, languages) ==
  SelectSeq(languages, LAMBDA info : Has(tri, info.udhr))

\* the object of a script keyed by declaration key instead of code
RECURSIVE ScriptObjectByUdhr(_, _)
ScriptObjectByUdhr(tri, languages) ==
  IF languages = <<>> THEN EmptyObject
  ELSE Put(ScriptObjectByUdhr(tri, Front(languages)),
           Last(languages).udhr, Reverse(tri[Last(languages).udhr]))

\* lines 109-120: the object stored at data[script]; a later member of the
\* same code overwrites an earlier one
RECURSIVE ScriptObject(_, _)
ScriptObject(tri, languages) ==
  IF languages = <<>> THEN EmptyObject
  ELSE Put(ScriptObject(tri, Front(languages)),
           Last(languages).iso6393, Reverse(tri[Last(languages).udhr]))

\* lines 106-121 from the i-th key of perScript on
RECURSIVE Trigrams(_, _, _, _, _)
Trigrams(tri, byScript, keys, i, acc) ==
  IF i > Len(keys) THEN acc
  ELSE LET script  == keys[i]
           members == WithTrigrams(tri, WithoutRedundant(byScript[script]))
       IN Trigrams(tri, byScript, keys, i + 1,
            [acc EXCEPT !.support = @ \o members,
                        !.data = Put(@, script, ScriptObject(tri, members))])

\* lines 124-128
JapaneseExpression(e) ==
  RegExp(e["Hiragana"].source \o e["Katakana"].source, "g")

\* the synthetic entry made only for a package whose list holds jpn
PushJapaneseIfListed(e, regs) ==
  IF Has(regs, "jpn") THEN Put(regs, "jpn", JapaneseExpression(e)) ELSE regs

PushJapanese(e, regs) == Put(regs, "jpn", JapaneseExpression(e))

\* line 180
FixtureLimit == 1000

NoText == Text("", 0, 0, 0)

\* lines 158-176: the text picked for a declaration key
PickFixture(decls, udhrKey) ==
  IF Has(customFixtures, udhrKey) THEN customFixtures[udhrKey]
  ELSE IF ~Has(decls, udhrKey) THEN NoText
  ELSE IF decls[udhrKey].preamble # <<>>
            /\ Length(decls[udhrKey].preamble[1]) > 0
       THEN decls[udhrKey].preamble[1]
       ELSE IF decls[udhrKey].note # <<>> THEN decls[udhrKey].note[1]
       ELSE NoText

\* lines 152-182: fixtures[udhrKey] = {...} for every entry of support, in order
RECURSIVE Fixtures(_, _)
Fixtures(decls, languages) ==
  IF languages = <<>> THEN EmptyObject
  ELSE Put(Fixtures(decls, Front(languages)), Last(languages).udhr,
           [iso6393 |-> Last(languages).iso6393,
            fixture |-> Slice(PickFixture(decls, Last(languages).udhr),
                              FixtureLimit)])

\* list.sort(sort) in place of support.sort(sort)
SortedInPlaceList == "list"

\* the array line 130 sorts in place
SortedInPlace == "support"

\* lines 54-76: `list` is the array topLanguages itself unless a filter made
\* a new one
ListIsTopLanguages(p) == p.threshold = -1 /\ Len(p.includedlanguages) = 0

\* lines 66-128 on the package p: the values of the locals when the loops
\* are over, or thrown when line 102 raised a TypeError
Resolve(p) ==
  LET afterThreshold == ThresholdFilter(topLanguages, p.threshold)
      afterAllowList == AllowListFilter(afterThreshold, p.includedlanguages)
      byScript       == createTopLanguagesByScript(afterAllowList)
      g == Groups(expressions, byScript, ScriptKeys(afterAllowList), 1,
                  [support |-> <<>>, regularExpressions |-> EmptyObject,
                   perScript |-> <<>>, thrown |-> FALSE])
      t == Trigrams(trigrams, byScript, g.perScript, 1,
                    [support |-> g.support, data |-> EmptyObject])
  IN [filtered |-> afterThreshold,
      list     |-> afterAllowList,
      thrown   |-> g.thrown,
      support  |-> t.support,
      regularExpressions |-> PushJapanese(expressions, g.regularExpressions),
      data     |-> t.data]

(***************************************************************************)
(* The inputs of a build.                                                  *)
(***************************************************************************)
SpeakerValues == {NoSpeakers} \cup {<<n>> : n \in 0..MaxSpeakers}

\* the speaker table: any count for aaa and bbb, the largest count or none
\* for yue, the largest count for jpn, none for the codes that are dropped
SpeakerTables ==
  {[code \in {iso6393[i].iso6393 : i \in DOMAIN iso6393} |->
      IF code \in {"aaa", "bbb"} THEN f[code]
      ELSE IF code = "yue" THEN y
      ELSE IF code = "jpn" THEN <<MaxSpeakers>> ELSE NoSpeakers] :
     f \in [{"aaa", "bbb"} -> SpeakerValues],
     y \in {NoSpeakers, <<MaxSpeakers>>}}

\* the corpus index: every entry carries its own key as code and names a code
\* of the registry as ISO
Indexes ==
  {[code \in {"aaa", "k1", "k2"} |->
      [code |-> code,
       ISO  |-> IF code = "aaa" THEN a ELSE IF code = "k1" THEN "aaa" ELSE "bbb"]] :
     a \in {"aaa", "bbb"}}

Corpora ==
  {[code \in {"aaa", "k1", "k2"} |->
      IF code = "aaa" THEN LatinDeclaration
      ELSE IF code = "k1" THEN d ELSE CyrillicDeclaration] :
     d \in {MostlyLatinDeclaration, MixedDeclaration, CommonDeclaration}}

\* trigram lists, most frequent first
TrigramTables ==
  {"aaa" :> <<"an ", " a ", "na ">>,
   ("aaa" :> <<"an ", " a ", "na ">>) @@ ("k1" :> <<"ka ", " k ">>)}

OverrideTables == {EmptyObject, "yue" :> <<"k1", "k2">>}

\* the package descriptors; a threshold of 0 stands for a missing one too
Packages ==
  [name : {monoName, "franc-min"},
   threshold : {0, -1} \cup 1..(MaxSpeakers + 1),
   includedlanguages : {<<>>, <<"aaa", "bbb", "yue">>}]

(***************************************************************************)
(* The build.                                                              *)
(***************************************************************************)
Init ==
  /\ phase = "start"
  /\ speakers \in SpeakerTables
  /\ information \in Indexes
  /\ declarations \in Corpora
  /\ trigrams \in TrigramTables
  /\ overrides \in OverrideTables
  /\ expressions = EmptyObject
  /\ candidates = <<>>
  /\ topLanguages = <<>>
  /\ constructed = [topLanguages |-> <<>>, expressions |-> EmptyObject]
  /\ pack = [name |-> "", threshold |-> 0, includedlanguages |-> <<>>]
  /\ outcome = "none"
  /\ filtered = <<>>
  /\ list = <<>>
  /\ support = <<>>
  /\ regularExpressions = EmptyObject
  /\ data = EmptyObject
  /\ fixturesWritten = FALSE
  /\ fixtures = EmptyObject

\* line 37
CreateExpressions ==
  /\ phase = "start"
  /\ phase' = "expressions"
  /\ expressions' = createExpressions
  /\ UNCHANGED <<speakers, information, declarations, trigrams, overrides,
                 candidates, topLanguages, constructed, pack, outcome,
                 filtered, list, support, regularExpressions, data,
                 fixturesWritten, fixtures>>

\* line 38
CreateTopLanguages ==
  /\ phase = "expressions"
  /\ LET registered == Registered(speakers)
         expanded   == Expand(registered, overrides, information, 1,
                              Len(registered))
     IN /\ candidates' = expanded.top
        /\ overrides' = expanded.overrides
        /\ IF Throws(declarations, expressions, expanded.top)
           THEN /\ phase' = "fatal"
                /\ UNCHANGED <<topLanguages, constructed>>
           ELSE /\ phase' = "ready"
                /\ topLanguages' \in
                     SortOutcomes(Survivors(declarations, expressions,
                                            trigrams, expanded.top))
                /\ constructed' = [topLanguages |-> topLanguages',
                                   expressions |-> expressions]
  /\ UNCHANGED <<speakers, information, declarations, trigrams, expressions,
                 pack, outcome, filtered, list, support, regularExpressions,
                 data, fixturesWritten, fixtures>>

\* lines 59-61: a package without a threshold is left alone
GenerateSkips(p) ==
  /\ p.threshold = 0
  /\ outcome' = "skipped"
  /\ filtered' = <<>>
  /\ list' = <<>>
  /\ support' = <<>>
  /\ regularExpressions' = EmptyObject
  /\ data' = EmptyObject
  /\ fixturesWritten' = FALSE
  /\ fixtures' = EmptyObject
  /\ UNCHANGED <<phase, topLanguages>>

\* line 102 on a group with no language left: the TypeError ends the build
\* before anything is written
GenerateThrows(p, r) ==
  /\ p.threshold # 0
  /\ r.thrown
  /\ outcome' = "TypeError"
  /\ phase' = "crashed"
  /\ filtered' = r.filtered
  /\ list' = r.list
  /\ support' = <<>>
  /\ regularExpressions' = EmptyObject
  /\ data' = EmptyObject
  /\ fixturesWritten' = FALSE
  /\ fixtures' = EmptyObject
  /\ UNCHANGED topLanguages

\* lines 66-189
GenerateEmits(p, r) ==
  /\ p.threshold # 0
  /\ ~r.thrown
  /\ outcome' = "emitted"
  /\ support' \in IF SortedInPlace = "support"
                  THEN SortOutcomes(r.support)
                  ELSE {r.support}
  /\ topLanguages' \in IF SortedInPlace = "list" /\ ListIsTopLanguages(p)
                       THEN SortOutcomes(topLanguages)
                       ELSE {topLanguages}
  /\ filtered' = IF p.threshold = -1 THEN topLanguages' ELSE r.filtered
  /\ list' = IF ListIsTopLanguages(p) THEN topLanguages' ELSE r.list
  /\ regularExpressions' = r.regularExpressions
  /\ data' = r.data
  /\ fixturesWritten' = (p.name = monoName)
  /\ fixtures' = IF p.name = monoName THEN Fixtures(declarations, support')
                 ELSE EmptyObject
  /\ UNCHANGED phase

\* lines 41-44: generate on one package directory
Generate ==
  /\ phase = "ready"
  /\ \E p \in Packages :
       LET r == Resolve(p)
       IN /\ pack' = p
          /\ \/ GenerateSkips(p)
             \/ GenerateThrows(p, r)
             \/ GenerateEmits(p, r)
  /\ UNCHANGED <<speakers, information, declarations, trigrams, overrides,
                 expressions, candidates, constructed>>

Next == CreateExpressions \/ CreateTopLanguages \/ Generate

Spec == Init /\ [][Next]_vars

(***************************************************************************)
(* Properties.                                                             *)
(***************************************************************************)
Built == phase \in {"ready", "crashed"}

\* the call of generate() reached the filters of lines 66-76
Resolved == outcome \in {"emitted", "TypeError"}

Codes(languages) == {languages[i].iso6393 : i \in DOMAIN languages}

\* the scripts of the trigram table that hold the code
TrigramScripts(code) == {script \in DOMAIN data : Has(data[script], code)}

\* C1 as stated: coverage law by code. When generate() has emitted a package,
\* every code of the final support list has exactly one mechanism: a key of
\* its own in the expression table and no entry in the trigram table, or an
\* entry under exactly one script of the trigram table and no key of its own.
C1_CoverageLaw ==
  outcome = "emitted" =>
    \A code \in Codes(support) :
      \/ Has(regularExpressions, code) /\ TrigramScripts(code) = {}
      \/ ~Has(regularExpressions, code)
           /\ Cardinality(TrigramScripts(code)) = 1

\* C1 as amended: coverage law by entry. When generate() has emitted a
\* package, every entry of the final support list has exactly one mechanism
\* for its own script: the trigram table has no object for the script and the
\* expression table has a key equal to the entry's code, or the trigram table
\* holds the code under the script and the expression table has the script as
\* a key. Every code the trigram table holds under a script is the code of a
\* support entry of that script, and every code that is a key of the
\* expression table, jpn apart, is the code of a support entry whose script
\* has no object in the trigram table.
C1_CoverageByEntry ==
  outcome = "emitted" =>
    /\ \A i \in DOMAIN support :
         IF Has(data, support[i].script)
         THEN /\ Has(data[support[i].script], support[i].iso6393)
              /\ Has(regularExpressions, support[i].script)
         ELSE Has(regularExpressions, support[i].iso6393)
    /\ \A script \in DOMAIN data : \A code \in DOMAIN data[script] :
         \E i \in DOMAIN support :
           support[i].iso6393 = code /\ support[i].script = script
    /\ \A code \in Codes(list) \ {"jpn"} :
         Has(regularExpressions, code) =>
           \E i \in DOMAIN support :
             support[i].iso6393 = code /\ ~Has(data, support[i].script)

\* C1 witness: an emitted package whose support list holds one code twice,
\* once under a script of the trigram table and once with a key of its own in
\* the expression table.
C1_Witness ==
  /\ outcome = "emitted"
  /\ \E i, j \in DOMAIN support :
       /\ support[i].iso6393 = support[j].iso6393
       /\ support[i].script # support[j].script
       /\ Has(data, support[i].script)
       /\ Has(data[support[i].script], support[i].iso6393)
       /\ ~Has(data, support[j].script)
       /\ Has(regularExpressions, support[j].iso6393)

\* the script names a record of the universe may carry
ScriptNames ==
  {scripts[i] : i \in DOMAIN scripts}
    \cup {JapaneseScript, "Telugu", "Oriya", "Sinhala", "Ol_Chiki"}

\* C2: single-script invariant. Every record of the universe that
\* createTopLanguages() returned carries one defined script name.
C2_SingleScript ==
  Built => \A i \in DOMAIN topLanguages :
             /\ topLanguages[i].script # Undefined
             /\ topLanguages[i].script \in ScriptNames

AtLeast(languages, threshold) ==
  \A i \in DOMAIN languages :
    /\ IsNumber(languages[i].speakers)
    /\ Num(languages[i].speakers) >= threshold

\* C3: threshold law. For a threshold T other than -1 every entry of the
\* filtered list, of the list and of the final support list has a known
\* speaker count of at least T; for T = -1 the list after the threshold filter
\* is the universe.
C3_ThresholdLaw ==
  Resolved =>
    /\ pack.threshold # -1 =>
         /\ AtLeast(filtered, pack.threshold)
         /\ AtLeast(list, pack.threshold)
         /\ AtLeast(support, pack.threshold)
    /\ pack.threshold = -1 => filtered = topLanguages

\* C3 witness: a package with a positive threshold was emitted with a
\* non-empty support list, the filter having dropped a record with an unknown
\* speaker count and a record with a known count below the threshold.
C3_Witness ==
  /\ outcome = "emitted"
  /\ pack.threshold >= 1
  /\ support # <<>>
  /\ \E i \in DOMAIN topLanguages : ~IsNumber(topLanguages[i].speakers)
  /\ \E i \in DOMAIN topLanguages :
       /\ IsNumber(topLanguages[i].speakers)
       /\ Num(topLanguages[i].speakers) < pack.threshold
  /\ Len(filtered) < Len(topLanguages)

\* a comes before b: a known count before an unknown one, a larger count
\* before a smaller one, and on equal counts the name that is first
InOrder(a, b) ==
  /\ IsNumber(b.speakers) => IsNumber(a.speakers)
  /\ IsNumber(a.speakers) /\ IsNumber(b.speakers) =>
       /\ Num(a.speakers) >= Num(b.speakers)
       /\ Num(a.speakers) = Num(b.speakers) => Rank(a.name) <= Rank(b.name)

Ordered(languages) ==
  \A i, j \in DOMAIN languages : i < j => InOrder(languages[i], languages[j])

\* the comparator is antisymmetric and transitive on the records
Consistent(languages) ==
  LET S == {languages[i] : i \in DOMAIN languages}
  IN /\ \A a, b \in S : (sort(a, b) < 0) <=> (sort(b, a) > 0)
     /\ \A a, b, c \in S : sort(a, b) <= 0 /\ sort(b, c) <= 0 => sort(a, c) <= 0

\* C4: sort rule. The universe and every final support list are in descending
\* order of speakers, ties broken by ascending name, unknown counts last, and
\* the comparator is a consistent ordering of the records.
C4_SortRule ==
  /\ Built => Ordered(topLanguages) /\ Consistent(topLanguages)
  /\ outcome = "emitted" => Ordered(support)

\* C5 as stated: allow-list overrides threshold. With a non-empty allow-list
\* the languages retained are exactly the records of the universe whose code
\* is in the allow-list, whatever their speaker count.
C5_AllowListOverrides ==
  Resolved /\ Len(pack.includedlanguages) > 0 =>
    list = SelectSeq(topLanguages,
                     LAMBDA info : Includes(pack.includedlanguages, info.iso6393))

\* C5 as amended: allow-list narrows threshold. With a non-empty allow-list
\* the languages retained are exactly the records of the universe whose code
\* is in the allow-list and which pass the package's threshold (all of them
\* for a threshold of -1), in the order of the universe.
C5_AllowListNarrows ==
  Resolved /\ Len(pack.includedlanguages) > 0 =>
    list = SelectSeq(topLanguages,
                     LAMBDA info :
                       /\ Includes(pack.includedlanguages, info.iso6393)
                       /\ \/ pack.threshold = -1
                          \/ /\ IsNumber(info.speakers)
                             /\ Num(info.speakers) >= pack.threshold)

\* C5 witness: a package with a positive threshold and an allow-list was
\* emitted with a non-empty list, a universe record named in the allow-list
\* being below the threshold and not retained.
C5_Witness ==
  /\ outcome = "emitted"
  /\ pack.threshold >= 1
  /\ Len(pack.includedlanguages) > 0
  /\ list # <<>>
  /\ \E i \in DOMAIN topLanguages :
       /\ Includes(pack.includedlanguages, topLanguages[i].iso6393)
       /\ IsNumber(topLanguages[i].speakers)
       /\ Num(topLanguages[i].speakers) < pack.threshold
       /\ topLanguages[i].iso6393 \notin Codes(list)

\* the pattern of the two scripts' character classes
HiraganaKatakana == RegExp(<<"Hiragana", "Katakana">>, "g")

HasJapanese ==
  /\ Has(regularExpressions, "jpn")
  /\ regularExpressions["jpn"] = HiraganaKatakana
  /\ regularExpressions["jpn"] # Lookup(expressions, JapaneseScript)

\* C6 as stated: for every package generate() returned from, whatever its
\* threshold and allow-list, the expression table holds the key jpn with the
\* pattern of the Hiragana and Katakana classes.
C6_JapaneseEveryPackage ==
  outcome \in {"skipped", "emitted"} => HasJapanese

\* C6 as amended: every expression table generate() emits holds the key jpn
\* with the pattern of the Hiragana and Katakana classes, whatever the
\* threshold and allow-list and whether or not jpn passed the filters; a
\* package whose threshold is 0 or missing gets no expression table.
C6_JapaneseWhenEmitted ==
  /\ outcome = "emitted" => HasJapanese
  /\ outcome = "skipped" => regularExpressions = EmptyObject

\* C6 witness: a package with a positive threshold and an allow-list was
\* emitted, jpn being in the universe, below the threshold and so not in the
\* support list.
C6_Witness ==
  /\ outcome = "emitted"
  /\ pack.threshold >= 1
  /\ Len(pack.includedlanguages) > 0
  /\ "jpn" \in Codes(topLanguages)
  /\ "jpn" \notin Codes(filtered)
  /\ "jpn" \notin Codes(support)

\* C7: per-item conditions never abort a package run. Once the universe is
\* built, no call of generate() ends in an exception.
C7_NeverAborts ==
  Built => outcome # "TypeError" /\ phase # "crashed"

\* C8: universe immutability. After any sequence of generate() calls the
\* universe and the script pattern table are what they were right after
\* construction.
C8_UniverseImmutable ==
  Built => /\ topLanguages = constructed.topLanguages
           /\ expressions = constructed.expressions

\* C8 witness: a package with threshold -1 and no allow-list, whose list is
\* the universe array itself, was emitted after an earlier call, and its
\* sorted support list differs from that array.
C8_Witness ==
  /\ outcome = "emitted"
  /\ ListIsTopLanguages(pack)
  /\ Len(topLanguages) >= 3
  /\ list = topLanguages
  /\ support # topLanguages

\* C9: fixture completeness and fallback. The fixture set is written for the
\* umbrella package only, and then every entry of the final support list has
\* a fixture carrying its code, at most FixtureLimit long, that is the prefix
\* of the first defined source of its declaration key.
C9_Fixtures ==
  outcome = "emitted" =>
    /\ fixturesWritten = (pack.name = monoName)
    /\ fixturesWritten =>
         \A i \in DOMAIN support :
           \E key \in DOMAIN fixtures :
             /\ fixtures[key].iso6393 = support[i].iso6393
             /\ fixtures[key].fixture.len <= FixtureLimit
             /\ fixtures[key].fixture =
                  Slice(PickFixture(declarations, support[i].udhr), FixtureLimit)

\* the declaration keys C10 resolves for a code
ResolvedKeys(code) ==
  IF Has(overrides, code) THEN overrides[code]
  ELSE LET found == Matches(information, code)
       IN IF Len(found) = 1 THEN found
          ELSE IF Includes(found, code) THEN <<code>>
          ELSE found

\* the records C10 expects of a registered record
Variants(info) ==
  IF ResolvedKeys(info.iso6393) = <<>> THEN {WithUdhr(info, Undefined)}
  ELSE {WithUdhr(info, ResolvedKeys(info.iso6393)[j]) :
          j \in DOMAIN ResolvedKeys(info.iso6393)}

ExpectedCandidates ==
  UNION {Variants(Registered(speakers)[i]) : i \in DOMAIN Registered(speakers)}

\* C10: declaration-variant expansion. createTopLanguages() leaves exactly
\* one candidate per resolved declaration key of every registered code (one
\* without a key when there is none), and leaves the override table as it was.
C10_Expansion ==
  [][phase = "expressions" /\ phase' # "expressions" =>
       /\ {candidates'[i] : i \in DOMAIN candidates'} = ExpectedCandidates
       /\ Len(candidates') = Cardinality(ExpectedCandidates)
       /\ overrides' = overrides]_vars

\* the expansion alone, without the frame condition on the override table
C10_CandidatesOnly ==
  [][phase = "expressions" /\ phase' # "expressions" =>
       /\ {candidates'[i] : i \in DOMAIN candidates'} = ExpectedCandidates
       /\ Len(candidates') = Cardinality(ExpectedCandidates)]_vars

====
